---- MODULE Spec2Model ----
(***************************************************************************)
(* A model of PrimeCPP_PAR.cpp: the prime_sieve class (the sieve engine)   *)
(* and main (the argument loop and the multi-threaded benchmark harness).  *)
(*                                                                         *)
(* Spec        one prime_sieve instance of any size 1..MaxN, with runSieve *)
(*             taken one loop iteration at a time and the const queries    *)
(*             (countPrimes, isPrime, validateResults, printResults)       *)
(*             callable whenever runSieve is not executing.                *)
(* HarnessSpec main(): the argument loop over argv, the timed wave loop    *)
(*             with its worker threads, the final check sieve.             *)
(***************************************************************************)
EXTENDS Integers, Sequences, FiniteSets, TLC

\* ------------------------------------------------------------------ bounds
MaxN == 100            \* largest sieve size Spec constructs
MaxSweeps == 2         \* runSieve calls made on one instance
MaxArgs == 3           \* longest argument list (argc - 1)
MaxOverrun == 1        \* elements main may read past args.end() before it faults
MaxThreads == 2        \* threads the system can give; hardware_concurrency() <= it
MaxWaves == 2          \* iterations the timed loop makes
MaxClock == 5          \* the clock stops advancing here

\* ---------------------------------------------------------- sieve: state
VARIABLES
    Bits,       \* vector<bool> Bits: a function 0..size-1 -> BOOLEAN
    pc,         \* where the instance's caller is: "idle" or inside runSieve
    factor,     \* runSieve's local
    q,          \* runSieve's local
    num,        \* runSieve's loop variable (both for-loops)
    sweeps,     \* completed runSieve calls (0 = Unswept)
    ret,        \* the last query made and what it returned
    oob         \* TRUE once some access Bits[i] had i outside [0, size)

sieveVars == <<Bits, pc, factor, q, num, sweeps, ret, oob>>

\* -------------------------------------------------------- harness: state
VARIABLES
    args,               \* vector<string> args(argv + 1, argv + argc)
    argi,               \* the iterator i: a position 1..Len(args), end = Len(args) + 1
    cThreadsRequested,
    cSecondsRequested,
    ullLimitRequested,
    bPrintPrimes,
    bOneshot,
    hpc,                \* where main is
    out,                \* what main has written to cout / stderr
    cPasses,
    cSeconds,
    cThreads,
    llUpperLimit,
    elapsed,            \* duration_cast<seconds>(steady_clock::now() - tStart).count()
    threadPool,         \* vector<thread> threadPool: the handles, in push_back order
    threads,            \* the worker threads that exist, each with its position
    spawnI,             \* the spawning loop's i
    joinI,              \* the position of the joining loop in threadPool
    wave,               \* the iteration of the while loop main is in (0 before the first)
    waves,              \* iterations of the while loop that ran to their end
    workerRuns,         \* runSieve calls worker threads have completed
    checkRuns,          \* runSieve calls main has completed on checkSieve
    report              \* the arguments main passed to printResults

harnessVars ==
    <<args, argi, cThreadsRequested, cSecondsRequested, ullLimitRequested,
      bPrintPrimes, bOneshot, hpc, out, cPasses, cSeconds, cThreads,
      llUpperLimit, elapsed, threadPool, threads, spawnI, joinI, wave, waves,
      workerRuns, checkRuns, report>>

vars == <<sieveVars, harnessVars>>

\* Bits.size()
BitsSize(B) == Cardinality(DOMAIN B)

\* prime_sieve(n) : Bits(n, true)
Construct(n) == [i \in 0..(n - 1) |-> TRUE]

\* (int) sqrt(Bits.size()): for the sizes modelled the double square root is
\* exact to the unit, so the truncation is the integer square root.
ISqrt(n) == CHOOSE r \in 0..n : r * r <= n /\ (r + 1) * (r + 1) > n

\* a clearing loop that starts at the factor itself
ClearStartAtFactor(f) == f

\* the first index the clearing loop writes (line 62)
ClearStart(f) == f * f

\* a clearing loop that steps over every other odd multiple
ClearStrideWide(f) == f * 4

\* the stride of the clearing loop (line 62)
ClearStride(f) == f * 2

NoReport == [passes |-> 0, threads |-> 0, limit |-> 0, printed |-> FALSE]

NoRet == [op |-> "none", arg |-> 0, bval |-> FALSE, ival |-> 0]

\* ------------------------------------------------------- sieve: the queries
\* countPrimes(): the for-loop from i, carrying count
RECURSIVE CountLoop(_, _, _)
CountLoop(B, i, count) ==
    IF i < BitsSize(B)
    THEN CountLoop(B, i + 2, IF B[i] THEN count + 1 ELSE count)
    ELSE count

\* the initial value of count: (Bits.size() >= 2)
CountTwo(B) == IF BitsSize(B) >= 2 THEN 1 ELSE 0

countPrimes(B) == CountLoop(B, 3, CountTwo(B))

\* isPrime(n)
isPrime(B, n) == IF n % 2 = 1 THEN B[n] ELSE FALSE

\* validateResults()'s table.  Its last entry, { 10'000'000'000, 455052511 },
\* has a key beyond TLC's 32-bit integers and beyond every size modelled; it is
\* the one entry left out.
resultsDictionary ==
    (10 :> 4) @@ (100 :> 25) @@ (1000 :> 168) @@ (10000 :> 1229) @@
    (100000 :> 9592) @@ (1000000 :> 78498) @@ (10000000 :> 664579) @@
    (100000000 :> 5761455) @@ (1000000000 :> 50847534)

\* a validateResults() that lets a size without reference data pass
NotFoundPasses == TRUE

\* what validateResults() returns when find() == end() (line 115)
NotFoundResult == FALSE

validateResults(B) ==
    IF BitsSize(B) \notin DOMAIN resultsDictionary
    THEN NotFoundResult
    ELSE resultsDictionary[BitsSize(B)] = countPrimes(B)

\* printResults(): the last index its loop reads (num <= Bits.size())
PrintLoopCond(B, n) == n <= BitsSize(B)

\* printResults()'s own count; a read past the end of the vector yields
\* whatever the storage holds there (garbage).
RECURSIVE PrintLoop(_, _, _, _)
PrintLoop(B, n, count, garbage) ==
    IF PrintLoopCond(B, n)
    THEN LET bit == IF n \in DOMAIN B THEN B[n] ELSE garbage
         IN  PrintLoop(B, n + 2, IF bit THEN count + 1 ELSE count, garbage)
    ELSE count

\* the indices printResults() reads
PrintReads(B) == {n \in 3..(BitsSize(B) + 2) : n % 2 = 1 /\ PrintLoopCond(B, n)}

\* ------------------------------------------------------- sieve: the actions
\* main is not running
HarnessOff ==
    /\ args = <<>>
    /\ argi = 0
    /\ cThreadsRequested = 0
    /\ cSecondsRequested = 0
    /\ ullLimitRequested = 0
    /\ bPrintPrimes = FALSE
    /\ bOneshot = FALSE
    /\ hpc = "off"
    /\ out = {}
    /\ cPasses = 0
    /\ cSeconds = 0
    /\ cThreads = 0
    /\ llUpperLimit = 0
    /\ elapsed = 0
    /\ threadPool = <<>>
    /\ threads = {}
    /\ spawnI = 0
    /\ joinI = 0
    /\ wave = 0
    /\ waves = 0
    /\ workerRuns = 0
    /\ checkRuns = 0
    /\ report = NoReport

SieveInit ==
    /\ \E n \in 1..MaxN : Bits = Construct(n)
    /\ pc = "idle"
    /\ factor = 0
    /\ q = 0
    /\ num = 0
    /\ sweeps = 0
    /\ ret = NoRet
    /\ oob = FALSE

\* runSieve(): lines 49-50
RunSieveBegin ==
    /\ pc = "idle"
    /\ sweeps < MaxSweeps
    /\ factor' = 3
    /\ q' = ISqrt(BitsSize(Bits))
    /\ pc' = "while"
    /\ ret' = NoRet
    /\ UNCHANGED <<Bits, num, sweeps, oob>>
    /\ UNCHANGED harnessVars

\* while (factor <= q): enter the body, or return
WhileTest ==
    /\ pc = "while"
    /\ IF factor <= q
       THEN /\ pc' = "scan"
            /\ num' = factor
            /\ UNCHANGED sweeps
       ELSE /\ pc' = "idle"
            /\ sweeps' = sweeps + 1
            /\ UNCHANGED num
    /\ UNCHANGED <<Bits, factor, q, ret, oob>>
    /\ UNCHANGED harnessVars

\* the first for-loop: one iteration, the break, or the exit
ScanStep ==
    /\ pc = "scan"
    /\ IF num < BitsSize(Bits)
       THEN /\ oob' = (oob \/ num \notin DOMAIN Bits)
            /\ IF Bits[num]
               THEN /\ factor' = num
                    /\ num' = ClearStart(num)
                    /\ pc' = "clear"
               ELSE /\ num' = num + 2
                    /\ UNCHANGED <<factor, pc>>
       ELSE /\ num' = ClearStart(factor)
            /\ pc' = "clear"
            /\ UNCHANGED <<factor, oob>>
    /\ UNCHANGED <<Bits, q, sweeps, ret>>
    /\ UNCHANGED harnessVars

\* the second for-loop: one iteration, or the exit and factor += 2
ClearStep ==
    /\ pc = "clear"
    /\ IF num < BitsSize(Bits)
       THEN /\ oob' = (oob \/ num \notin DOMAIN Bits)
            /\ Bits' = [Bits EXCEPT ![num] = FALSE]
            /\ num' = num + ClearStride(factor)
            /\ UNCHANGED <<factor, pc>>
       ELSE /\ factor' = factor + 2
            /\ pc' = "while"
            /\ UNCHANGED <<Bits, num, oob>>
    /\ UNCHANGED <<q, sweeps, ret>>
    /\ UNCHANGED harnessVars

\* The four queries are const methods: one made earlier changes nothing for
\* the next, so ret records one query per idle period of the instance.
CountPrimes ==
    /\ pc = "idle"
    /\ ret = NoRet
    /\ ret' = [op |-> "countPrimes", arg |-> 0, bval |-> FALSE,
               ival |-> countPrimes(Bits)]
    /\ UNCHANGED <<Bits, pc, factor, q, num, sweeps, oob>>
    /\ UNCHANGED harnessVars

\* isPrime(k), the caller keeping k < size as the class requires
IsPrime ==
    /\ pc = "idle"
    /\ ret = NoRet
    /\ \E k \in DOMAIN Bits :
          ret' = [op |-> "isPrime", arg |-> k, bval |-> isPrime(Bits, k),
                  ival |-> 0]
    /\ UNCHANGED <<Bits, pc, factor, q, num, sweeps, oob>>
    /\ UNCHANGED harnessVars

ValidateResults ==
    /\ pc = "idle"
    /\ ret = NoRet
    /\ ret' = [op |-> "validateResults", arg |-> 0,
               bval |-> validateResults(Bits), ival |-> 0]
    /\ UNCHANGED <<Bits, pc, factor, q, num, sweeps, oob>>
    /\ UNCHANGED harnessVars

\* printResults(): ival is the count it computes itself, arg the
\* countPrimes() it prints next to it, bval the Pass/FAIL it prints
PrintResults ==
    /\ pc = "idle"
    /\ ret = NoRet
    /\ \E garbage \in BOOLEAN :
          ret' = [op |-> "printResults", arg |-> countPrimes(Bits),
                  bval |-> validateResults(Bits),
                  ival |-> PrintLoop(Bits, 3, CountTwo(Bits), garbage)]
    /\ oob' = (oob \/ \E n \in PrintReads(Bits) : n \notin DOMAIN Bits)
    /\ UNCHANGED <<Bits, pc, factor, q, num, sweeps>>
    /\ UNCHANGED harnessVars

Next ==
    \/ RunSieveBegin
    \/ WhileTest
    \/ ScanStep
    \/ ClearStep
    \/ CountPrimes
    \/ IsPrime
    \/ ValidateResults
    \/ PrintResults

Init == SieveInit /\ HarnessOff

Spec == Init /\ [][Next]_vars

\* ================================================================ main()
\* const uint64_t DEFAULT_UPPER_LIMIT
DEFAULT_UPPER_LIMIT == 10000000

\* the 5 of (cSecondsRequested ? cSecondsRequested : 5)
DefaultSeconds == 5

\* The option strings main compares *i with, as sequences of characters.
OptHelp == {<<"-", "h">>, <<"-", "-", "h", "e", "l", "p">>}
OptThreads == {<<"-", "t">>, <<"-", "-", "t", "h", "r", "e", "a", "d", "s">>}
OptSeconds == {<<"-", "s">>, <<"-", "-", "s", "e", "c", "o", "n", "d", "s">>}
OptLimit == {<<"-", "l">>, <<"-", "-", "l", "i", "m", "i", "t">>}
OptOneshot == {<<"-", "1">>, <<"-", "-", "o", "n", "e", "s", "h", "o", "t">>}
OptPrint == {<<"-", "p">>, <<"-", "-", "p", "r", "i", "n", "t">>}

\* The strings argv is built from.
Tokens ==
    {<<"-", "h">>, <<"-", "t">>, <<"-", "-", "t", "h", "r", "e", "a", "d", "s">>,
     <<"-", "s">>, <<"-", "l">>, <<"-", "1">>, <<"-", "p">>, <<"4">>, <<"0">>}

ArgLists == UNION {[1..n -> Tokens] : n \in 0..MaxArgs}

\* atoi / atoll: an optional sign, then the leading decimal digits (the
\* strings of Tokens carry no leading white space to skip).
Digits == <<"0", "1", "2", "3", "4", "5", "6", "7", "8", "9">>

IsDigit(c) == \E d \in 1..10 : Digits[d] = c

DigitValue(c) == (CHOOSE d \in 1..10 : Digits[d] = c) - 1

RECURSIVE AtoiDigits(_, _, _)
AtoiDigits(str, p, acc) ==
    IF p <= Len(str) /\ IsDigit(str[p])
    THEN AtoiDigits(str, p + 1, acc * 10 + DigitValue(str[p]))
    ELSE acc

Atoi(str) ==
    IF str = <<>> THEN 0
    ELSE IF str[1] = "-" THEN 0 - AtoiDigits(str, 2, 0)
    ELSE IF str[1] = "+" THEN AtoiDigits(str, 2, 0)
    ELSE AtoiDigits(str, 1, 0)

\* min(1, v) of lines 176, 181, 187
MinOne(v) == IF v < 1 THEN v ELSE 1

\* An unsigned variable holds its value modulo 2^32 (unsigned int) or 2^64
\* (uint64_t).  The model writes the residue in the signed range: a negative v
\* stands for 2^w + v, the value the conversion of v to the unsigned type gives.
\* a < b on two such residues, as the unsigned comparison decides it:
ULess(a, b) == IF (a < 0) = (b < 0) THEN a < b ELSE b < 0

\* prime_sieve(n) throws (length_error / bad_alloc) for an n of 2^64 + v, v < 0;
\* nothing catches it, so the process terminates.
ConstructThrows(n) == n < 0

\* args.end()
End == Len(args) + 1

\* *p for an iterator at position p: the element, or, past the end of the
\* vector, whatever the memory there holds.
TokAt(p) == IF p <= Len(args) THEN {args[p]} ELSE Tokens

\* (i == args.end()) ? 0 : min(1, atoi(i->c_str())) after the i++ of a branch
ValuesAt(p) == IF p = End THEN {0} ELSE {MinOne(Atoi(v)) : v \in TokAt(p)}

\* the for-loop's condition i != args.end(); an iterator that has stepped over
\* end() satisfies it
InArgLoop == hpc = "args" /\ argi # End /\ argi <= End + MaxOverrun

sieveOff ==
    /\ Bits = Construct(0)
    /\ pc = "off"
    /\ factor = 0
    /\ q = 0
    /\ num = 0
    /\ sweeps = 0
    /\ ret = NoRet
    /\ oob = FALSE

\* lines 155-160, 214
HarnessInit ==
    /\ args \in ArgLists
    /\ argi = 1
    /\ cThreadsRequested = 0
    /\ cSecondsRequested = 0
    /\ ullLimitRequested = 0
    /\ bPrintPrimes = FALSE
    /\ bOneshot = FALSE
    /\ hpc = "args"
    /\ out = {}
    /\ cPasses = 0
    /\ cSeconds = 0
    /\ cThreads = 0
    /\ llUpperLimit = 0
    /\ elapsed = 0
    /\ threadPool = <<>>
    /\ threads = {}
    /\ spawnI = 0
    /\ joinI = 0
    /\ wave = 0
    /\ waves = 0
    /\ workerRuns = 0
    /\ checkRuns = 0
    /\ report = NoReport
    /\ sieveOff

runVars ==
    <<cPasses, cSeconds, cThreads, llUpperLimit, elapsed, threadPool, threads,
      spawnI, joinI, wave, waves, workerRuns, checkRuns, report>>

\* -h / --help: print the syntax, return 0
ArgHelp ==
    /\ InArgLoop
    /\ \E tok \in TokAt(argi) : tok \in OptHelp
    /\ out' = out \cup {"syntax"}
    /\ hpc' = "exit"
    /\ UNCHANGED <<args, argi, cThreadsRequested, cSecondsRequested,
                   ullLimitRequested, bPrintPrimes, bOneshot>>
    /\ UNCHANGED <<runVars, sieveVars>>

\* -t / --threads
ArgThreads ==
    /\ InArgLoop
    /\ \E tok \in TokAt(argi) : tok \in OptThreads /\ tok \notin OptHelp
    /\ \E v \in ValuesAt(argi + 1) : cThreadsRequested' = v
    /\ argi' = argi + 2
    /\ UNCHANGED <<args, cSecondsRequested, ullLimitRequested, bPrintPrimes,
                   bOneshot, hpc, out>>
    /\ UNCHANGED <<runVars, sieveVars>>

\* -s / --seconds: the assignment, then the return 0 of line 182
ArgSeconds ==
    /\ InArgLoop
    /\ \E tok \in TokAt(argi) : tok \in OptSeconds
    /\ \E v \in ValuesAt(argi + 1) : cSecondsRequested' = v
    /\ argi' = argi + 1
    /\ hpc' = "exit"
    /\ UNCHANGED <<args, cThreadsRequested, ullLimitRequested, bPrintPrimes,
                   bOneshot, out>>
    /\ UNCHANGED <<runVars, sieveVars>>

\* -l / --limit
ArgLimit ==
    /\ InArgLoop
    /\ \E tok \in TokAt(argi) : tok \in OptLimit
    /\ \E v \in ValuesAt(argi + 1) : ullLimitRequested' = v
    /\ argi' = argi + 2
    /\ UNCHANGED <<args, cThreadsRequested, cSecondsRequested, bPrintPrimes,
                   bOneshot, hpc, out>>
    /\ UNCHANGED <<runVars, sieveVars>>

\* -1 / --oneshot: the i++ of line 191, then the loop's ++i
ArgOneshot ==
    /\ InArgLoop
    /\ \E tok \in TokAt(argi) : tok \in OptOneshot
    /\ bOneshot' = TRUE
    /\ cThreadsRequested' = 1
    /\ argi' = argi + 2
    /\ UNCHANGED <<args, cSecondsRequested, ullLimitRequested, bPrintPrimes,
                   hpc, out>>
    /\ UNCHANGED <<runVars, sieveVars>>

\* -p / --print
ArgPrint ==
    /\ InArgLoop
    /\ \E tok \in TokAt(argi) : tok \in OptPrint
    /\ bPrintPrimes' = TRUE
    /\ argi' = argi + 1
    /\ UNCHANGED <<args, cThreadsRequested, cSecondsRequested,
                   ullLimitRequested, bOneshot, hpc, out>>
    /\ UNCHANGED <<runVars, sieveVars>>

\* anything else: "Unknown argument" on stderr
ArgUnknown ==
    /\ InArgLoop
    /\ \E tok \in TokAt(argi) :
          tok \notin UNION {OptHelp, OptThreads, OptSeconds, OptLimit,
                            OptOneshot, OptPrint}
    /\ out' = out \cup {"unknown argument"}
    /\ argi' = argi + 1
    /\ UNCHANGED <<args, cThreadsRequested, cSecondsRequested,
                   ullLimitRequested, bPrintPrimes, bOneshot, hpc>>
    /\ UNCHANGED <<runVars, sieveVars>>

\* dereferencing an iterator that stepped over end() may fault
ArgFault ==
    /\ hpc = "args"
    /\ argi > End
    /\ hpc' = "crashed"
    /\ UNCHANGED <<args, argi, cThreadsRequested, cSecondsRequested,
                   ullLimitRequested, bPrintPrimes, bOneshot, out>>
    /\ UNCHANGED <<runVars, sieveVars>>

\* the oneshot test of line 208
OneshotConflict == bOneshot /\ (cSecondsRequested > 0 \/ cThreadsRequested > 1)

\* lines 205-227: i == args.end(); the oneshot messages, the conflict test,
\* the defaults, tStart
Configure ==
    /\ hpc = "args"
    /\ argi = End
    /\ IF OneshotConflict
       THEN /\ out' = out \cup {"oneshot is on", "oneshot cannot be mixed"}
            /\ hpc' = "exit"
            /\ UNCHANGED <<cSeconds, cThreads, llUpperLimit>>
       ELSE /\ out' = out \cup (IF bOneshot THEN {"oneshot is on"} ELSE {})
                        \cup {"computing primes"}
            /\ cSeconds' = (IF cSecondsRequested # 0 THEN cSecondsRequested
                            ELSE DefaultSeconds)
            /\ \E hardware_concurrency \in 0..MaxThreads :
                  cThreads' = (IF cThreadsRequested # 0 THEN cThreadsRequested
                               ELSE hardware_concurrency)
            /\ llUpperLimit' = (IF ullLimitRequested # 0 THEN ullLimitRequested
                                ELSE DEFAULT_UPPER_LIMIT)
            /\ hpc' = (IF bOneshot THEN "oneshot" ELSE "loop")
    /\ UNCHANGED <<args, argi, cThreadsRequested, cSecondsRequested,
                   ullLimitRequested, bPrintPrimes, bOneshot>>
    /\ UNCHANGED <<cPasses, elapsed, threadPool, threads, spawnI, joinI, wave,
                   waves, workerRuns, checkRuns, report>>
    /\ UNCHANGED sieveVars

argVars ==
    <<args, argi, cThreadsRequested, cSecondsRequested, ullLimitRequested,
      bPrintPrimes, bOneshot>>

\* The steady clock advances.  main reads it in the while condition only, so
\* the model lets it advance where that read is next.
Tick ==
    /\ hpc = "loop"
    /\ elapsed < MaxClock
    /\ elapsed' = elapsed + 1
    /\ UNCHANGED <<argVars, hpc, out, cPasses, cSeconds, cThreads, llUpperLimit,
                   threadPool, threads, spawnI, joinI, wave, waves, workerRuns,
                   checkRuns, report>>
    /\ UNCHANGED sieveVars

\* while (elapsed < cSeconds): enter the body; vector<thread> threadPool
WaveBegin ==
    /\ hpc = "loop"
    /\ elapsed < cSeconds
    /\ waves < MaxWaves
    /\ hpc' = "spawn"
    /\ threadPool' = <<>>
    /\ spawnI' = 0
    /\ wave' = wave + 1
    /\ UNCHANGED <<argVars, out, cPasses, cSeconds, cThreads, llUpperLimit,
                   elapsed, threads, joinI, waves, workerRuns, checkRuns, report>>
    /\ UNCHANGED sieveVars

\* while (elapsed < cSeconds): leave the loop
LoopExit ==
    /\ hpc = "loop"
    /\ ~(elapsed < cSeconds)
    /\ hpc' = "check"
    /\ UNCHANGED <<argVars, out, cPasses, cSeconds, cThreads, llUpperLimit,
                   elapsed, threadPool, threads, spawnI, joinI, wave, waves,
                   workerRuns, checkRuns, report>>
    /\ UNCHANGED sieveVars

\* threadPool.push_back(thread(...)): the thread exists from here on
SpawnThread ==
    /\ hpc = "spawn"
    /\ ULess(spawnI, cThreads)
    /\ Len(threadPool) < MaxThreads
    /\ threads' = threads \cup {[wave |-> wave, idx |-> spawnI, st |-> "started"]}
    /\ threadPool' = Append(threadPool, [wave |-> wave, idx |-> spawnI])
    /\ spawnI' = spawnI + 1
    /\ UNCHANGED <<argVars, hpc, out, cPasses, cSeconds, cThreads, llUpperLimit,
                   elapsed, joinI, wave, waves, workerRuns, checkRuns, report>>
    /\ UNCHANGED sieveVars

\* the thread constructor throws system_error once the system has no thread
\* left to give; nothing catches it
SpawnFails ==
    /\ hpc = "spawn"
    /\ ULess(spawnI, cThreads)
    /\ Len(threadPool) >= MaxThreads
    /\ hpc' = "crashed"
    /\ UNCHANGED <<argVars, out, runVars>>
    /\ UNCHANGED sieveVars

\* the spawning loop ends
SpawnDone ==
    /\ hpc = "spawn"
    /\ ~ULess(spawnI, cThreads)
    /\ hpc' = "join"
    /\ joinI' = 1
    /\ UNCHANGED <<argVars, out, cPasses, cSeconds, cThreads, llUpperLimit,
                   elapsed, threadPool, threads, spawnI, wave, waves,
                   workerRuns, checkRuns, report>>
    /\ UNCHANGED sieveVars

Alive == hpc \notin {"crashed", "exit", "done", "off"}

\* The sieves main and its workers build have size llUpperLimit, which is 1,
\* DEFAULT_UPPER_LIMIT or a size no allocation gives; their flags are private
\* to their owner and read by nobody else, so here a sieve is the stage its
\* owner has reached.  What runSieve does to the flags is Spec's subject.
\* a worker: make_unique<prime_sieve>(llUpperLimit)
WorkerConstruct(t) ==
    /\ Alive
    /\ t.st = "started"
    /\ IF ConstructThrows(llUpperLimit)
       THEN /\ hpc' = "crashed"
            /\ UNCHANGED threads
       ELSE /\ threads' = (threads \ {t}) \cup {[t EXCEPT !.st = "sieving"]}
            /\ UNCHANGED hpc
    /\ UNCHANGED <<argVars, out, cPasses, cSeconds, cThreads, llUpperLimit,
                   elapsed, threadPool, spawnI, joinI, wave, waves, workerRuns,
                   checkRuns, report>>
    /\ UNCHANGED sieveVars

\* a worker: ->runSieve() returns, the sieve is freed, the thread ends
WorkerRunSieve(t) ==
    /\ Alive
    /\ t.st = "sieving"
    /\ threads' = (threads \ {t}) \cup {[t EXCEPT !.st = "finished"]}
    /\ workerRuns' = workerRuns + 1
    /\ UNCHANGED <<argVars, hpc, out, cPasses, cSeconds, cThreads, llUpperLimit,
                   elapsed, threadPool, spawnI, joinI, wave, waves, checkRuns,
                   report>>
    /\ UNCHANGED sieveVars

\* a join that does not wait
JoinWithoutWaiting(t) == TRUE

\* th.join() returns once the thread has ended
JoinReady(t) == t.st = "finished"

JoinThread ==
    /\ hpc = "join"
    /\ joinI <= Len(threadPool)
    /\ \E t \in threads :
          /\ t.wave = threadPool[joinI].wave
          /\ t.idx = threadPool[joinI].idx
          /\ JoinReady(t)
    /\ joinI' = joinI + 1
    /\ UNCHANGED <<argVars, hpc, out, cPasses, cSeconds, cThreads, llUpperLimit,
                   elapsed, threadPool, threads, spawnI, wave, waves,
                   workerRuns, checkRuns, report>>
    /\ UNCHANGED sieveVars

\* the joining loop ends
JoinDone ==
    /\ hpc = "join"
    /\ joinI > Len(threadPool)
    /\ hpc' = "credit"
    /\ UNCHANGED <<argVars, out, runVars>>
    /\ UNCHANGED sieveVars

\* a loop that credits one pass per wave
CreditOnePerWave(passes, t) == passes + 1

\* cPasses += cThreads
PassCredit(passes, t) == passes + t

\* line 248, then the end of the loop body: threadPool is destroyed
Credit ==
    /\ hpc = "credit"
    /\ cPasses' = PassCredit(cPasses, cThreads)
    /\ waves' = waves + 1
    /\ threadPool' = <<>>
    /\ threads' = {t \in threads : t.st # "finished"}
    /\ hpc' = "loop"
    /\ UNCHANGED <<argVars, out, cSeconds, cThreads, llUpperLimit, elapsed,
                   spawnI, joinI, wave, workerRuns, checkRuns, report>>
    /\ UNCHANGED sieveVars

\* the else branch: cPasses++
Oneshot ==
    /\ hpc = "oneshot"
    /\ cPasses' = cPasses + 1
    /\ hpc' = "check"
    /\ UNCHANGED <<argVars, out, cSeconds, cThreads, llUpperLimit, elapsed,
                   threadPool, threads, spawnI, joinI, wave, waves, workerRuns,
                   checkRuns, report>>
    /\ UNCHANGED sieveVars

\* prime_sieve checkSieve(llUpperLimit); checkSieve.runSieve()
CheckSieve ==
    /\ hpc = "check"
    /\ IF ConstructThrows(llUpperLimit)
       THEN /\ hpc' = "crashed"
            /\ UNCHANGED checkRuns
       ELSE /\ hpc' = "report"
            /\ checkRuns' = checkRuns + 1
    /\ UNCHANGED <<argVars, out, cPasses, cSeconds, cThreads, llUpperLimit,
                   elapsed, threadPool, threads, spawnI, joinI, wave, waves,
                   workerRuns, report>>
    /\ UNCHANGED sieveVars

\* checkSieve.printResults(bPrintPrimes, ..., cPasses, cThreads); return
ReportResults ==
    /\ hpc = "report"
    /\ report' = [passes |-> cPasses, threads |-> cThreads,
                  limit |-> llUpperLimit, printed |-> TRUE]
    /\ hpc' = "done"
    /\ UNCHANGED <<argVars, out, cPasses, cSeconds, cThreads, llUpperLimit,
                   elapsed, threadPool, threads, spawnI, joinI, wave, waves,
                   workerRuns, checkRuns>>
    /\ UNCHANGED sieveVars

HarnessNext ==
    \/ ArgHelp
    \/ ArgThreads
    \/ ArgSeconds
    \/ ArgLimit
    \/ ArgOneshot
    \/ ArgPrint
    \/ ArgUnknown
    \/ ArgFault
    \/ Configure
    \/ Tick
    \/ WaveBegin
    \/ LoopExit
    \/ SpawnThread
    \/ SpawnFails
    \/ SpawnDone
    \/ \E t \in threads : WorkerConstruct(t)
    \/ \E t \in threads : WorkerRunSieve(t)
    \/ JoinThread
    \/ JoinDone
    \/ Credit
    \/ Oneshot
    \/ CheckSieve
    \/ ReportResults

HarnessSpec == HarnessInit /\ [][HarnessNext]_vars

\* ============================================================ the claims
IsPrimeNumber(k) == k >= 2 /\ \A d \in 2..(k - 1) : k % d # 0

PrimesBelow(n) == {k \in 0..(n - 1) : IsPrimeNumber(k)}

Swept == pc = "idle" /\ sweeps >= 1

\* C1: after Construct(N) and RunSieve(), IsPrime(k) of an odd k with
\* 3 <= k < N is true if k is prime and false if k is composite.
C1_OddIsPrimeIsPrimality ==
    (Swept /\ ret.op = "isPrime" /\ ret.arg % 2 = 1 /\ ret.arg >= 3)
        => (ret.bval <=> IsPrimeNumber(ret.arg))

C1_Witness ==
    /\ Swept
    /\ BitsSize(Bits) = 100
    /\ ret.op = "isPrime"
    /\ ret.arg = 91
    /\ ret.bval = FALSE

\* C2: CountPrimes() after Construct(N) and RunSieve() returns the number of
\* primes in [0, N), for every N >= 1.
C2_CountIsNumberOfPrimes ==
    (Swept /\ ret.op = "countPrimes")
        => ret.ival = Cardinality(PrimesBelow(BitsSize(Bits)))

\* C3: after RunSieve(), IsPrime(k) returns whether k is prime for every k in
\* [0, N): 0, 1, 2 and the even k included.
C3_IsPrimeIsPrimality ==
    (Swept /\ ret.op = "isPrime") => (ret.bval <=> IsPrimeNumber(ret.arg))

\* validateResults()'s outcomes for a size that is in the table
PassOutcome == TRUE
FailOutcome == FALSE

\* the count of the flags, taken without countPrimes()'s loop
FlagCount(B) ==
    Cardinality({i \in DOMAIN B : i % 2 = 1 /\ i >= 3 /\ B[i]})
        + (IF 2 \in DOMAIN B \/ BitsSize(B) = 2 THEN 1 ELSE 0)

C8_SecondRunKeepsCount ==
    [][sweeps >= 1 => countPrimes(Bits') = countPrimes(Bits)]_vars

C8_Witness ==
    /\ pc = "idle"
    /\ sweeps = 2
    /\ BitsSize(Bits) = 100
    /\ ret.op = "countPrimes"
    /\ ret.ival = 25

\* C10: every flag access of RunSieve(), CountPrimes() and printResults() has
\* its index in [0, N), and printResults()'s own count equals CountPrimes().
C10_AccessesInRange ==
    /\ ~oob
    /\ ret.op = "printResults" => ret.ival = ret.arg

\* ---- the harness's claims
\* What an argument list asks for, read as the syntax line of -h describes
\* it: [-t threads] [-s seconds] [-l limit] [-1] [-p], each value a number.
\* A value counts as supplied when it is a positive number.
IsNumber(str) ==
    str # <<>> /\ (\A p \in 1..Len(str) : IsDigit(str[p])) /\ Atoi(str) > 0

NoRequest ==
    [ok |-> TRUE, threads |-> 0, seconds |-> 0, limit |-> 0, oneshot |-> FALSE]

RECURSIVE Asked(_, _, _)
Asked(a, p, r) ==
    IF p > Len(a) THEN r
    ELSE IF a[p] \in OptOneshot THEN Asked(a, p + 1, [r EXCEPT !.oneshot = TRUE])
    ELSE IF a[p] \in OptPrint THEN Asked(a, p + 1, r)
    ELSE IF p < Len(a) /\ IsNumber(a[p + 1]) /\ a[p] \in OptThreads
         THEN Asked(a, p + 2, [r EXCEPT !.threads = Atoi(a[p + 1])])
    ELSE IF p < Len(a) /\ IsNumber(a[p + 1]) /\ a[p] \in OptSeconds
         THEN Asked(a, p + 2, [r EXCEPT !.seconds = Atoi(a[p + 1])])
    ELSE IF p < Len(a) /\ IsNumber(a[p + 1]) /\ a[p] \in OptLimit
         THEN Asked(a, p + 2, [r EXCEPT !.limit = Atoi(a[p + 1])])
    ELSE [r EXCEPT !.ok = FALSE]

Request == Asked(args, 1, NoRequest)

\* main has passed the configuration stage and is running the benchmark
Started == hpc \in {"loop", "spawn", "join", "credit", "oneshot", "check",
                    "report", "done"}

Running == {t \in threads : t.st # "finished"}

\* C4: the pass count reported is the number of worker runs credited: T times
\* the completed waves in timed mode, exactly 1 in one-shot mode.
C4_PassesAreCreditedRuns ==
    hpc = "done" =>
        /\ report.printed
        /\ IF bOneshot
           THEN report.passes = 1
           ELSE /\ report.passes = cThreads * waves
                /\ report.passes = workerRuns

C4_Witness ==
    /\ hpc = "done"
    /\ ~bOneshot
    /\ waves = 1
    /\ cThreads = 2
    /\ report.passes = 2

\* C6: an argument list that asks for one-shot mode together with a thread
\* count above one or with a time budget is refused: the conflict is
\* reported, no sieve is run and no pass is credited.
C6_ConflictIsRefused ==
    (Request.ok /\ Request.oneshot /\ (Request.threads > 1 \/ Request.seconds > 0))
        => /\ workerRuns = 0
           /\ checkRuns = 0
           /\ cPasses = 0
           /\ hpc \in {"exit", "done"} => "oneshot cannot be mixed" \in out

\* C7: the harness runs with the values supplied: the limit, the thread count
\* and the time budget asked for when positive, the default otherwise.
C7_SuppliedValuesAreUsed ==
    (Request.ok /\ ~Request.oneshot) =>
        /\ hpc # "exit"
        /\ Started =>
              /\ llUpperLimit = (IF Request.limit > 0 THEN Request.limit
                                 ELSE DEFAULT_UPPER_LIMIT)
              /\ cSeconds = (IF Request.seconds > 0 THEN Request.seconds
                             ELSE DefaultSeconds)
              /\ Request.threads > 0 => cThreads = Request.threads

\* C9: waves never overlap: a worker that is running belongs to the wave main
\* is in, and main tests the time budget and credits passes only while no
\* worker is running.
C9_WavesDoNotOverlap ==
    /\ \A t \in Running : t.wave = wave
    /\ hpc \in {"loop", "credit"} => Running = {}

C9_Witness ==
    /\ wave = 2
    /\ hpc = "join"
    /\ Cardinality(threads) = 2
    /\ \E t \in threads : t.st = "sieving"

====
